---- MODULE Spec2Model ----
(***************************************************************************)
(* State-machine model of the inference gateway (gateway/app): the         *)
(* per-tenant rate limiter and concurrency gate of main.py, the quota      *)
(* ledger of services/quota_manager.py, the circuit breaker of             *)
(* middleware/circuit_breaker.py, the JSON / SSE proxies of main.py, the   *)
(* health checks of services/health_check.py, the response cache of        *)
(* services/cache_service.py and the token estimates of                    *)
(* utils/token_counter.py.                                                 *)
(*                                                                         *)
(* Each subsystem has its own next-state relation over the shared state;   *)
(* the handlers are asyncio coroutines, so one action is one run of a      *)
(* handler between two suspension points (await).                          *)
(*                                                                         *)
(* Time is a discrete clock `now`.  Durations are scaled configuration     *)
(* values: only their order relations matter to the code.                  *)
(***************************************************************************)
EXTENDS Integers, Sequences, FiniteSets, TLC

(***************************************************************************)
(* Configuration (config.py) and module constants (main.py), scaled.       *)
(***************************************************************************)
max_rps_per_ip == 1

rps_window_secs == 1

rps_burst == 2

max_inflight_per_ip == 1

queue_timeout_secs == 1

gc_every == 2

ip_idle_secs == 3

\* TTLCache(maxsize = cache_max_size, ttl = cache_ttl_secs)
cache_ttl_secs == 2

cache_max_size == 2

\* temperatures are in tenths: the default of payload.get("temperature", 0.7) and
\* the limit of should_cache (temperature <= 0.3)
default_temperature == 7

cache_temperature_limit == 3

\* token counts are in units of 100 tokens
org_daily_token_limit == 4

org_daily_request_limit == 3

org_monthly_token_limit == 6

sql_output_tokens == 2

MonthsPerYear == 12

circuit_failure_threshold == 2

circuit_recovery_timeout == 2

\* _record_success: "After 3 successful calls in half-open, close the circuit"
half_open_successes == 3

stream_idle_timeout_secs == 1

\* estimate_completion_tokens: min(max_tokens, 4096), default 512
max_completion_tokens == 3

default_completion_tokens == 2

\* count_messages_tokens: tokens_per_message, and the tokens of the reply priming
tokens_per_message == 4

reply_priming_tokens == 3

(***************************************************************************)
(* Bounds of the model.                                                    *)
(***************************************************************************)
MaxReqs == 3

MaxReqCounter == 4

MaxNowAdmit == 4

MaxNowQuota == 3

TicksPerDay == 1

DaysInMonth == 3

MaxInputTokens == 1

MaxUsageTokens == MaxInputTokens + 1

MaxTokens == org_monthly_token_limit + 1

MaxRequests == org_daily_request_limit + 1

MaxCalls == 1

MaxNowBreaker == 4

MaxJson == 2

MaxNowStream == 2

MaxLines == 2

IPs == {"ip1", "ip2"}

\* settings.chat_backends, text2sql_backend, embed_backend, rerank_backend
chat_backends == <<"A", "B">>

text2sql_backend == "T"

embed_backend == "E"

rerank_backend == "R"

Backends == {text2sql_backend}

JCalls == 1..MaxJson

MaxNowCache == 3

\* the words of a prompt, the messages of a chat and the tokens of their contents
MaxWords == 5

MaxMessages == 2

MaxContentTokens == 3

\* the largest "max_tokens" of a payload
MaxMaxTokens == 5

\* the payload has no "temperature"
NoTemperature == -1

\* request payloads, as far as the cache key reads them
Payloads == [messages : {"m1", "m2"}, temperature : {NoTemperature, 0, 3, 4, 7}]

\* response bodies of the backend
Responses == {"r1", "r2"}

Tenants == {"ip1"}

Calls == 1..MaxCalls

Reqs == 1..MaxReqs

NumSems == MaxReqs + Cardinality(IPs)

SemIds == 1..NumSems

NoSem == 0

NoTime == -1

VARIABLES
    now,            \* time.time()
    ip_hits,        \* _ip_hits: tenant -> deque of admission timestamps
    ip_sems,        \* _ip_sems: tenant -> semaphore object (NoSem: no entry)
    ip_last_seen,   \* _ip_last_seen: tenant -> timestamp (NoTime: no entry)
    req_counter,    \* _req_counter
    semValue,       \* asyncio.Semaphore._value of each semaphore object
    semWaiters,     \* asyncio.Semaphore._waiters of each semaphore object (FIFO)
    gate,           \* the proxy_acq frames in progress (ticket: _req_counter at entry)
    queue_depth,    \* the queue_depth gauge, per tenant
    lastResp,       \* response of the request handled last
    admitted,       \* history: times, within the last window, at which enforce_rps admitted
    usage,          \* QuotaManager.usage: tenant -> usage record
    call,           \* route handlers past the gate (quota check, selection, dispatch)
    lastCheck,      \* history: outcome of the tenant's last check_quota call
    lastOp,         \* history: the tenant's last ledger call
    lastCall,       \* history: what the handler run last did with its request
    rr_chat_index,  \* _rr_chat_index: the value the cycle yields next
    lastSel,        \* history: the backend selection made last
    healthy_backends, \* HealthCheckService.healthy_backends: role -> list of urls
    probe,          \* update_healthy_backends in progress (health_check_loop)
    breakers,       \* CircuitBreakerManager._breakers: backend url -> CircuitBreaker
    jcall,          \* proxy_json calls awaiting client.post
    hist,           \* history: the last events of each breaker (H: became HALF_OPEN,
                    \* S: success recorded, F: failure recorded)
    lastJson,       \* history: the proxy_json step taken last and its response
    generate,       \* the stream_proxy generator: position, backend, last_chunk_time
    out,            \* the frames the generator has yielded to the client
    cache,          \* CacheService.cache: the TTLCache's entries, oldest first
    lastCache,      \* history: the CacheService call made last and its result
    lastEstimate    \* history: the payload read last and the estimate given to check_quota

admitVars == <<ip_hits, ip_sems, ip_last_seen, req_counter, semValue, semWaiters,
               gate, queue_depth, lastResp, admitted>>

quotaVars == <<usage, call, lastCheck, lastOp, lastCall, rr_chat_index, lastSel>>

healthVars == <<healthy_backends, probe>>

breakerVars == <<breakers, hist>>

jsonVars == <<jcall, lastJson>>

streamVars == <<generate, out>>

cacheVars == <<cache, lastCache>>

vars == <<now, admitVars, quotaVars, breakerVars, jsonVars, streamVars, healthVars, cacheVars, lastEstimate>>

notAdmit == <<quotaVars, breakerVars, jsonVars, streamVars, healthVars, cacheVars, lastEstimate>>

notQuota == <<admitVars, breakerVars, jsonVars, streamVars, healthVars, cacheVars, lastEstimate>>

notBreaker == <<admitVars, quotaVars, streamVars, healthVars, cacheVars, lastEstimate>>

notStream == <<admitVars, quotaVars, jsonVars, healthVars, cacheVars, lastEstimate>>

notHealth == <<admitVars, quotaVars, breakerVars, jsonVars, streamVars, cacheVars, lastEstimate>>

notCache == <<admitVars, quotaVars, breakerVars, jsonVars, streamVars, healthVars,
              lastEstimate>>

notEstimate == <<admitVars, quotaVars, breakerVars, jsonVars, streamVars, healthVars, cacheVars>>

(***************************************************************************)
(* Rate limiter: enforce_rps                                               *)
(***************************************************************************)
Max(a, b) == IF a >= b THEN a ELSE b

RECURSIVE EvictOld(_, _)
EvictOld(q, t) ==
    IF q # <<>> /\ (t - Head(q)) > rps_window_secs THEN EvictOld(Tail(q), t) ELSE q

allowed == Max(rps_burst, max_rps_per_ip * rps_window_secs)

RpsRejects(q, t) == Len(EvictOld(q, t)) >= allowed

enforce_rps(q, t) == IF RpsRejects(q, t) THEN EvictOld(q, t) ELSE Append(EvictOld(q, t), t)

(***************************************************************************)
(* Concurrency control: get_ip_sem, gc_idle, proxy_acq                     *)
(***************************************************************************)
FreeGate == [pc |-> "free", ip |-> "", sem |-> NoSem, start |-> NoTime, ticket |-> 0]

UsedSems == {ip_sems[i] : i \in IPs} \cup {gate[r].sem : r \in Reqs}

NewSem == CHOOSE s \in SemIds : s \notin UsedSems /\ \A u \in SemIds : u \notin UsedSems => s <= u

get_ip_sem(ip) == IF ip_sems[ip] = NoSem THEN NewSem ELSE ip_sems[ip]

Stale(seen, t) == {i \in IPs : seen[i] # NoTime /\ (t - seen[i]) > ip_idle_secs}

\* gc_idle that also takes the tenants last seen exactly ip_idle_secs ago
gc_idle_AtThreshold(f, seen, t, empty) ==
    [i \in IPs |-> IF seen[i] # NoTime /\ (t - seen[i]) >= ip_idle_secs THEN empty ELSE f[i]]

gc_idle(f, seen, t, empty) == [i \in IPs |-> IF i \in Stale(seen, t) THEN empty ELSE f[i]]

RemoveReq(q, r) == SelectSeq(q, LAMBDA x : x # r)

(***************************************************************************)
(* Quota ledger: QuotaManager                                              *)
(*                                                                         *)
(* The clock starts at 00:00 UTC on the 1st of December of year 0; a day   *)
(* has TicksPerDay ticks and every month DaysInMonth days.                 *)
(***************************************************************************)
TicksPerMonth == TicksPerDay * DaysInMonth

ValueError == 0 - 2

\* datetime.now(timezone.utc)
DateOf(t) ==
    LET m == (t \div TicksPerMonth) + (MonthsPerYear - 1)
    IN  [year |-> m \div MonthsPerYear, month |-> (m % MonthsPerYear) + 1,
         day |-> ((t % TicksPerMonth) \div TicksPerDay) + 1, tick |-> t % TicksPerDay]

\* datetime.replace raises ValueError for a day the month does not have
ValidDate(d) == d.month \in 1..MonthsPerYear /\ d.day \in 1..DaysInMonth

\* datetime.timestamp()
Timestamp(d) ==
    ((d.year * MonthsPerYear + d.month - 1) - (MonthsPerYear - 1)) * TicksPerMonth
        + (d.day - 1) * TicksPerDay + d.tick

get_next_day_reset(t) ==
    LET today    == [DateOf(t) EXCEPT !.tick = 0]
        tomorrow == [today EXCEPT !.day = DateOf(t).day + 1]
    IN  IF ValidDate(tomorrow) THEN Timestamp(tomorrow) ELSE ValueError

get_next_month_reset(t) ==
    LET d == DateOf(t)
    IN  IF d.month = MonthsPerYear
        THEN Timestamp([year |-> d.year + 1, month |-> 1, day |-> 1, tick |-> 0])
        ELSE Timestamp([year |-> d.year, month |-> d.month + 1, day |-> 1, tick |-> 0])

NoUsage == [exists |-> FALSE, daily_tokens |-> 0, daily_requests |-> 0, monthly_tokens |-> 0,
            daily_reset_at |-> 0, monthly_reset_at |-> 0]

\* the usage dict after _get_or_create_usage, and whether the call raised
get_or_create_usage(u, t) ==
    IF ~u.exists
    THEN IF get_next_day_reset(t) = ValueError
         THEN [raised |-> TRUE, usage |-> u]
         ELSE [raised |-> FALSE,
               usage |-> [exists |-> TRUE, daily_tokens |-> 0, daily_requests |-> 0,
                          monthly_tokens |-> 0, daily_reset_at |-> get_next_day_reset(t),
                          monthly_reset_at |-> get_next_month_reset(t)]]
    ELSE LET zeroed == [u EXCEPT !.daily_tokens = 0, !.daily_requests = 0]
             daily  == IF t >= u.daily_reset_at
                       THEN [zeroed EXCEPT !.daily_reset_at = get_next_day_reset(t)]
                       ELSE u
             both   == IF t >= u.monthly_reset_at
                       THEN [daily EXCEPT !.monthly_tokens = 0,
                                          !.monthly_reset_at = get_next_month_reset(t)]
                       ELSE daily
         IN  IF t >= u.daily_reset_at /\ get_next_day_reset(t) = ValueError
             THEN [raised |-> TRUE, usage |-> zeroed]
             ELSE [raised |-> FALSE, usage |-> both]

\* check_quota without its daily token test
check_quota_NoDailyTokens(u, estimated_tokens) ==
    IF u.daily_requests >= org_daily_request_limit
    THEN <<FALSE, "Daily request limit exceeded">>
    ELSE IF u.monthly_tokens + estimated_tokens > org_monthly_token_limit
    THEN <<FALSE, "Monthly token limit exceeded">>
    ELSE <<TRUE, "None">>

\* the tuple check_quota returns for the usage record u
check_quota(u, estimated_tokens) ==
    IF u.daily_requests >= org_daily_request_limit
    THEN <<FALSE, "Daily request limit exceeded">>
    ELSE IF u.daily_tokens + estimated_tokens > org_daily_token_limit
    THEN <<FALSE, "Daily token limit exceeded">>
    ELSE IF u.monthly_tokens + estimated_tokens > org_monthly_token_limit
    THEN <<FALSE, "Monthly token limit exceeded">>
    ELSE <<TRUE, "None">>

record_usage(u, tokens_used) ==
    [u EXCEPT !.daily_tokens = @ + tokens_used, !.daily_requests = @ + 1,
              !.monthly_tokens = @ + tokens_used]

\* Python truth value of a tuple: false only when it is empty
PyTruthy(tuple) == Len(tuple) > 0

NoCheck == [result |-> "none", reason |-> "None", n |-> 0]

IdleCall == [pc |-> "idle", ip |-> "", quota |-> "none"]

NoCall == [route |-> "none", quota |-> "none", status |-> "none", forwarded |-> FALSE,
           recorded |-> FALSE]

\* `if not quota_manager.check_quota(ip, input_tokens)` in the route handlers
QuotaRejects(u, input_tokens) == ~PyTruthy(check_quota(u, input_tokens))

(***************************************************************************)
(* Backend health and selection: HealthCheckService, _rr_chat_index        *)
(***************************************************************************)
NoHealthy == [role \in {"chat", "text2sql", "embed", "rerank"} |-> <<>>]

\* get_healthy_backend(backend_type), given healthy_backends.get(backend_type, [])
get_healthy_backend(backends) == IF backends = <<>> THEN "ValueError" ELSE backends[1]

\* a call of get_healthy_backend with nargs arguments after self: the method takes one
call_get_healthy_backend(nargs, backends) ==
    IF nargs # 1 THEN "TypeError" ELSE get_healthy_backend(backends)

\* next(_rr_chat_index): the cycle over range(len(chat_backends)) after one draw
next_rr(idx) == (idx + 1) % Len(chat_backends)

\* history of a selection: the list it read, what get_healthy_backend came to, and
\* the response status the handler's except clause (ValueError only) makes of it
Selected(role, idx, backends, result) ==
    [role |-> role, idx |-> idx, healthy |-> backends, result |-> result,
     status |-> IF result = "ValueError" THEN "503"
                ELSE IF result = "TypeError" THEN "500" ELSE "selected"]

NoSel == Selected("none", 0, <<>>, "none")

IdleProbe == [pc |-> "idle", i |-> 0, chat_healthy |-> <<>>, started |-> FALSE,
              changed |-> FALSE, read |-> FALSE]

(***************************************************************************)
(* Circuit breaker: CircuitBreaker                                         *)
(***************************************************************************)
\* CircuitBreaker.__init__ (get_breaker creates it on the first call for a url)
NewBreaker == [state |-> "CLOSED", failure_count |-> 0, last_failure_time |-> 0,
               success_count |-> 0]

\* _should_attempt_reset that does not look at the clock
should_attempt_reset_NoTimeout(b, t) == b.state = "OPEN"

should_attempt_reset(b, t) ==
    b.state = "OPEN" /\ t - b.last_failure_time >= circuit_recovery_timeout

\* _record_success that closes the circuit one success late
record_success_ClosesLate(b) ==
    IF b.state = "HALF_OPEN"
    THEN IF b.success_count + 1 > half_open_successes
         THEN [b EXCEPT !.state = "CLOSED", !.failure_count = 0, !.success_count = 0]
         ELSE [b EXCEPT !.success_count = @ + 1]
    ELSE IF b.state = "CLOSED" THEN [b EXCEPT !.failure_count = 0]
    ELSE b

\* _record_success that forgets to reset failure_count when it closes the circuit
record_success_KeepFailures(b) ==
    IF b.state = "HALF_OPEN"
    THEN IF b.success_count + 1 >= half_open_successes
         THEN [b EXCEPT !.state = "CLOSED", !.success_count = 0]
         ELSE [b EXCEPT !.success_count = @ + 1]
    ELSE IF b.state = "CLOSED" THEN [b EXCEPT !.failure_count = 0]
    ELSE b

record_success(b) ==
    IF b.state = "HALF_OPEN"
    THEN IF b.success_count + 1 >= half_open_successes
         THEN [b EXCEPT !.state = "CLOSED", !.failure_count = 0, !.success_count = 0]
         ELSE [b EXCEPT !.success_count = @ + 1]
    ELSE IF b.state = "CLOSED" THEN [b EXCEPT !.failure_count = 0]
    ELSE b

\* _record_failure that opens the circuit at the first failure
record_failure_OpensAtOnce(b, t) ==
    LET f == [b EXCEPT !.failure_count = @ + 1, !.last_failure_time = t]
    IN  IF b.state = "HALF_OPEN" THEN [f EXCEPT !.state = "OPEN", !.success_count = 0]
        ELSE IF b.state = "CLOSED" THEN [f EXCEPT !.state = "OPEN"]
        ELSE f

record_failure(b, t) ==
    LET f == [b EXCEPT !.failure_count = @ + 1, !.last_failure_time = t]
    IN  IF b.state = "HALF_OPEN" THEN [f EXCEPT !.state = "OPEN", !.success_count = 0]
        ELSE IF b.state = "CLOSED" /\ f.failure_count >= circuit_failure_threshold
        THEN [f EXCEPT !.state = "OPEN"]
        ELSE f

\* __enter__ that lets every call through
breaker_enter_NeverRejects(b, t) ==
    [raised |-> FALSE,
     breaker |-> IF should_attempt_reset(b, t)
                 THEN [b EXCEPT !.state = "HALF_OPEN", !.success_count = 0] ELSE b]

\* __enter__: the breaker afterwards, and whether CircuitBreakerOpenError was raised
breaker_enter(b, t) ==
    LET b1 == IF should_attempt_reset(b, t)
              THEN [b EXCEPT !.state = "HALF_OPEN", !.success_count = 0] ELSE b
    IN  [raised |-> b1.state = "OPEN", breaker |-> b1]

\* __exit__ whose failure in HALF_OPEN reopens the circuit and keeps success_count
breaker_exit_KeepsSuccesses(b, exc, t) ==
    IF exc /\ b.state = "HALF_OPEN"
    THEN [b EXCEPT !.failure_count = @ + 1, !.last_failure_time = t, !.state = "OPEN"]
    ELSE IF exc THEN record_failure(b, t) ELSE record_success(b)

\* __exit__: a success when the block raised nothing, a failure otherwise
breaker_exit(b, exc, t) == IF exc THEN record_failure(b, t) ELSE record_success(b)

Last4(h) == IF Len(h) > 4 THEN SubSeq(h, Len(h) - 3, Len(h)) ELSE h

Logged(h, e) == Last4(Append(h, e))

EnterLogged(h, b, t) == IF should_attempt_reset(b, t) THEN Logged(h, "H") ELSE h

(***************************************************************************)
(* JSON proxy: proxy_json                                                  *)
(***************************************************************************)
IdleJson == [pc |-> "idle", url |-> "", entered |-> "none"]

NoJson == [kind |-> "none", status |-> "none", entered |-> "none", n |-> 0, outcome |-> "none"]

\* what client.post / raise_for_status / response.json() come to
PostOutcomes == {"200", "bad json", "400", "429", "500", "timeout", "connect error",
                 "cancelled"}

\* whether the `with` block is left by an exception
Raises(outcome) == outcome # "200"

\* the except clauses of proxy_json
JsonStatus(outcome) ==
    CASE outcome = "200" -> "200"
      [] outcome = "timeout" -> "504"
      [] outcome = "429" -> "429"
      [] outcome = "400" -> "400"
      [] outcome = "500" -> "500"
      [] outcome = "cancelled" -> "none"
      [] OTHER -> "500"

(***************************************************************************)
(* SSE stream proxy: sse_error, clean_stream_chunk, normalize_error_chunk  *)
(***************************************************************************)
vllm_fields_to_remove ==
    {"prompt_token_ids", "prompt_logprobs", "token_ids", "reasoning_content",
     "stop_reason", "kv_transfer_params"}

\* A JSON object: `error` tells whether it has an "error" key and of what type, `top`
\* is its other top-level keys, `choices` its "choices" list, each choice with its own
\* keys and those of its "delta" and "message" objects.
NoChoices == <<>>

Choice(own, hasDelta, delta, hasMessage, message) ==
    [own |-> own, hasDelta |-> hasDelta, delta |-> delta,
     hasMessage |-> hasMessage, message |-> message]

Obj(error, top, hasChoices, choices, errType, errCode) ==
    [error |-> error, top |-> top, hasChoices |-> hasChoices, choices |-> choices,
     errType |-> errType, errCode |-> errCode]

NoObj == Obj("absent", {}, FALSE, NoChoices, "", "")

\* the dict sse_error builds
ErrorPayload(errType, code) == Obj("obj", {}, FALSE, NoChoices, errType, code)

Frame(head, kind, json) == [head |-> head, kind |-> kind, json |-> json, tail |-> "\n\n"]

sse_error(errType, code) == Frame("data: ", "json", ErrorPayload(errType, code))

DoneFrame == Frame("data: ", "done", NoObj)

clean_choice(ch) ==
    [ch EXCEPT !.own = @ \ vllm_fields_to_remove,
               !.delta = IF ch.hasDelta THEN @ \ vllm_fields_to_remove ELSE @,
               !.message = IF ch.hasMessage THEN @ \ vllm_fields_to_remove ELSE @]

clean_stream_chunk(j) ==
    [j EXCEPT !.top = @ \ vllm_fields_to_remove,
              !.choices = IF j.hasChoices
                          THEN [i \in DOMAIN j.choices |-> clean_choice(j.choices[i])]
                          ELSE @]

normalize_error_chunk(j) ==
    IF j.error = "str" THEN ErrorPayload("api_error", "None") ELSE j

\* Lines of the upstream body, as aiter_lines yields them
Line(head, kind, json) == [head |-> head, kind |-> kind, json |-> json]

CleanChunk == Obj("absent", {"id"}, TRUE, <<Choice({"index"}, TRUE, {"content"}, FALSE, {})>>, "", "")

DirtyChunk ==
    Obj("absent", {"id", "prompt_token_ids"}, TRUE,
        <<Choice({"index", "stop_reason"}, TRUE, {"content", "reasoning_content", "token_ids"},
                 TRUE, {"content", "token_ids"})>>, "", "")

StrErrorChunk == Obj("str", {"kv_transfer_params"}, FALSE, NoChoices, "", "")

ObjErrorChunk ==
    Obj("obj", {"prompt_token_ids"}, TRUE,
        <<Choice({"stop_reason"}, TRUE, {"token_ids"}, FALSE, {})>>, "server", "OOM")

UpstreamLines ==
    { Line("data: ", "done", NoObj),
      Line("data:", "done", NoObj),
      Line("event: ", "text", NoObj),
      Line("data: ", "text", NoObj),
      Line("data: ", "scalar", NoObj),
      Line("data: ", "json", CleanChunk),
      Line("data: ", "json", DirtyChunk),
      Line("data: ", "json", StrErrorChunk),
      Line("data: ", "json", ObjErrorChunk) }

\* the body of a response whose status is >= 400
ErrorBodies == {"raw text", "error object", "error string", "message", "not an object"}

\* what `async with client.stream(...)` comes to
ResponseOutcomes == {"200", "error status", "timeout", "exception"}

\* the state of one StreamingResponse and its generator; ip and sem name the
\* request that built the response, status_code is the one of the response, n counts
\* the lines read and line tells whether the last of them starts with "data: "
IdleStream == [pc |-> "idle", url |-> "", last_chunk_time |-> 0, n |-> 0, cause |-> "none",
               ip |-> "", sem |-> NoSem, status_code |-> 0, line |-> "none"]

Ended(st, cause) == [st EXCEPT !.pc = "ended", !.cause = cause]

(***************************************************************************)
(* Response cache: CacheService over cachetools.TTLCache                   *)
(***************************************************************************)
temperature_of(payload) ==
    IF payload.temperature = NoTemperature THEN default_temperature ELSE payload.temperature

\* the sha256 of the key fields: equal keys for equal fields
get_cache_key(payload) ==
    [messages |-> payload.messages, temperature |-> temperature_of(payload)]

should_cache(payload) == temperature_of(payload) <= cache_temperature_limit

\* TTLCache.expire: the entries still alive at time t
expire(c, t) == SelectSeq(c, LAMBDA e : t < e.expires)

\* cache.get(key): None for a missing or expired key
cache_get(c, key, t) ==
    LET live == {i \in DOMAIN c : c[i].key = key /\ t < c[i].expires}
    IN  IF live = {} THEN "None" ELSE c[CHOOSE i \in live : TRUE].response

\* cache[key] = response: expired entries go, the oldest entry is evicted when
\* a new key finds the cache full, the entry becomes the newest
cache_set(c, key, response, t) ==
    LET alive == expire(c, t)
        known == \E i \in DOMAIN alive : alive[i].key = key
        others == SelectSeq(alive, LAMBDA e : e.key # key)
        room == IF ~known /\ Len(others) >= cache_max_size THEN Tail(others) ELSE others
    IN  Append(room, [key |-> key, response |-> response, expires |-> t + cache_ttl_secs])

NoCacheCall == [op |-> "none", payload |-> [messages |-> "", temperature |-> NoTemperature],
                result |-> "None"]

(***************************************************************************)
(* Token estimates: utils/token_counter.py and the handlers' quota check   *)
(***************************************************************************)
\* the payload has no "max_tokens" (None)
NoMaxTokens == -1

Min(a, b) == IF a <= b THEN a ELSE b

\* TokenCounter.estimate_completion_tokens: `if max_tokens` is false for None and 0
estimate_completion_tokens(max_tokens) ==
    IF max_tokens # NoMaxTokens /\ max_tokens # 0
    THEN Min(max_tokens, max_completion_tokens)
    ELSE default_completion_tokens

\* count_messages_tokens for `messages` messages whose string values encode to
\* content_tokens tokens in all
count_chat_tokens(messages, content_tokens) ==
    messages * tokens_per_message + content_tokens + reply_priming_tokens

\* len(prompt.split()) * 2
count_prompt_tokens(words) == words * 2

NoEstimate == [route |-> "none", input_tokens |-> 0, max_tokens |-> NoMaxTokens, passed |-> 0]

Init ==
    /\ now = 0
    /\ ip_hits = [i \in IPs |-> <<>>]
    /\ ip_sems = [i \in IPs |-> NoSem]
    /\ ip_last_seen = [i \in IPs |-> NoTime]
    /\ req_counter = 0
    /\ semValue = [s \in SemIds |-> max_inflight_per_ip]
    /\ semWaiters = [s \in SemIds |-> <<>>]
    /\ gate = [r \in Reqs |-> FreeGate]
    /\ queue_depth = [i \in IPs |-> 0]
    /\ lastResp = "none"
    /\ admitted = [i \in IPs |-> <<>>]
    /\ usage = [i \in Tenants |-> NoUsage]
    /\ call = [c \in Calls |-> IdleCall]
    /\ lastCheck = [i \in Tenants |-> NoCheck]
    /\ lastOp = [i \in Tenants |-> "none"]
    /\ lastCall = NoCall
    /\ rr_chat_index = 0
    /\ lastSel = NoSel
    /\ healthy_backends = NoHealthy
    /\ probe = IdleProbe
    /\ breakers = [u \in Backends |-> NewBreaker]
    /\ hist = [u \in Backends |-> <<>>]
    /\ jcall = [c \in JCalls |-> IdleJson]
    /\ lastJson = NoJson
    /\ generate = IdleStream
    /\ out = <<>>
    /\ cache = <<>>
    /\ lastCache = NoCacheCall
    /\ lastEstimate = NoEstimate

\* chat_completions / sql_completions: enforce_rps raises 429
RateLimited(ip) ==
    /\ RpsRejects(ip_hits[ip], now)
    /\ ip_hits' = [ip_hits EXCEPT ![ip] = enforce_rps(@, now)]
    /\ lastResp' = "429 rps"
    /\ UNCHANGED <<notAdmit, now, ip_sems, ip_last_seen, req_counter, semValue, semWaiters,
                   gate, queue_depth, admitted>>

\* enforce_rps admits, require_api_key raises 401 (no bearer token) or 403 (wrong token)
AuthRejected(ip, status) ==
    /\ ~RpsRejects(ip_hits[ip], now)
    /\ ip_hits' = [ip_hits EXCEPT ![ip] = enforce_rps(@, now)]
    /\ admitted' = [admitted EXCEPT ![ip] = Append(@, now)]
    /\ lastResp' = status
    /\ UNCHANGED <<notAdmit, now, ip_sems, ip_last_seen, req_counter, semValue, semWaiters,
                   gate, queue_depth>>

\* enforce_rps admits, the key is right, proxy_acq runs up to `await sem.acquire()`
GateEnter(ip, r) ==
    /\ gate[r].pc = "free"
    /\ \A q \in Reqs : gate[q].pc = "free" => r <= q
    /\ req_counter < MaxReqCounter
    /\ ~RpsRejects(ip_hits[ip], now)
    /\ LET sem   == get_ip_sem(ip)
           fresh == ip_sems[ip] = NoSem
           hits1 == [ip_hits EXCEPT ![ip] = enforce_rps(@, now)]
           sems1 == [ip_sems EXCEPT ![ip] = sem]
           seen1 == [ip_last_seen EXCEPT ![ip] = now]
           runGc == (req_counter + 1) % gc_every = 0
       IN  /\ req_counter' = req_counter + 1
           /\ ip_hits' = IF runGc THEN gc_idle(hits1, seen1, now, <<>>) ELSE hits1
           /\ ip_sems' = IF runGc THEN gc_idle(sems1, seen1, now, NoSem) ELSE sems1
           /\ ip_last_seen' = IF runGc THEN gc_idle(seen1, seen1, now, NoTime) ELSE seen1
           /\ semValue' = IF fresh THEN [semValue EXCEPT ![sem] = max_inflight_per_ip]
                          ELSE semValue
           /\ semWaiters' = [semWaiters EXCEPT
                                ![sem] = IF fresh THEN <<r>> ELSE Append(@, r)]
           /\ gate' = [gate EXCEPT ![r] = [pc |-> "waiting", ip |-> ip, sem |-> sem,
                                           start |-> now, ticket |-> req_counter + 1]]
    /\ admitted' = [admitted EXCEPT ![ip] = Append(@, now)]
    /\ queue_depth' = [queue_depth EXCEPT ![ip] = @ + 1]
    /\ lastResp' = "queued"
    /\ UNCHANGED <<notAdmit, now>>

\* a semaphore that hands its permit to any waiter
Acquire_AnyWaiter(r) ==
    /\ gate[r].pc = "waiting"
    /\ semValue[gate[r].sem] > 0
    /\ semValue' = [semValue EXCEPT ![gate[r].sem] = @ - 1]
    /\ semWaiters' = [semWaiters EXCEPT ![gate[r].sem] = RemoveReq(@, r)]
    /\ gate' = [gate EXCEPT ![r].pc = "running"]
    /\ UNCHANGED <<notAdmit, now, ip_hits, ip_sems, ip_last_seen, req_counter, queue_depth,
                   lastResp, admitted>>

\* sem.acquire() returns: the oldest waiter takes a permit; the request body starts
Acquire(r) ==
    /\ gate[r].pc = "waiting"
    /\ semValue[gate[r].sem] > 0
    /\ Head(semWaiters[gate[r].sem]) = r
    /\ semValue' = [semValue EXCEPT ![gate[r].sem] = @ - 1]
    /\ semWaiters' = [semWaiters EXCEPT ![gate[r].sem] = Tail(@)]
    /\ gate' = [gate EXCEPT ![r].pc = "running"]
    /\ UNCHANGED <<notAdmit, now, ip_hits, ip_sems, ip_last_seen, req_counter, queue_depth,
                   lastResp, admitted>>

\* a timeout whose finally releases the semaphore although nothing was acquired
QueueTimeout_Releases(r) ==
    /\ gate[r].pc = "waiting"
    /\ now - gate[r].start >= queue_timeout_secs
    /\ semWaiters' = [semWaiters EXCEPT ![gate[r].sem] = RemoveReq(@, r)]
    /\ semValue' = [semValue EXCEPT ![gate[r].sem] = @ + 1]
    /\ queue_depth' = [queue_depth EXCEPT ![gate[r].ip] = @ - 1]
    /\ lastResp' = "429 queue"
    /\ gate' = [gate EXCEPT ![r] = FreeGate]
    /\ UNCHANGED <<notAdmit, now, ip_hits, ip_sems, ip_last_seen, req_counter, admitted>>

\* asyncio.wait_for times out: acquired stays False, 429 with Retry-After: 5
QueueTimeout(r) ==
    /\ gate[r].pc = "waiting"
    /\ now - gate[r].start >= queue_timeout_secs
    /\ semWaiters' = [semWaiters EXCEPT ![gate[r].sem] = RemoveReq(@, r)]
    /\ queue_depth' = [queue_depth EXCEPT ![gate[r].ip] = @ - 1]
    /\ lastResp' = "429 queue"
    /\ gate' = [gate EXCEPT ![r] = FreeGate]
    /\ UNCHANGED <<notAdmit, now, ip_hits, ip_sems, ip_last_seen, req_counter, semValue, admitted>>

\* a finally that decrements the gauge and forgets the release
Finish_NoRelease(r) ==
    /\ gate[r].pc = "running"
    /\ queue_depth' = [queue_depth EXCEPT ![gate[r].ip] = @ - 1]
    /\ lastResp' = "done"
    /\ gate' = [gate EXCEPT ![r] = FreeGate]
    /\ UNCHANGED <<notAdmit, now, ip_hits, ip_sems, ip_last_seen, req_counter, semValue,
                   semWaiters, admitted>>

\* the request body leaves the `async with` (return, exception or cancellation):
\* finally decrements and releases
Finish(r) ==
    /\ gate[r].pc = "running"
    /\ semValue' = [semValue EXCEPT ![gate[r].sem] = @ + 1]
    /\ queue_depth' = [queue_depth EXCEPT ![gate[r].ip] = @ - 1]
    /\ lastResp' = "done"
    /\ gate' = [gate EXCEPT ![r] = FreeGate]
    /\ UNCHANGED <<notAdmit, now, ip_hits, ip_sems, ip_last_seen, req_counter, semWaiters, admitted>>

\* the clock advances; a wait_for timer that is due fires first
TickAdmit ==
    /\ now < MaxNowAdmit
    /\ \A r \in Reqs : gate[r].pc = "waiting" => now - gate[r].start < queue_timeout_secs
    /\ now' = now + 1
    /\ admitted' = [i \in IPs |->
                      SelectSeq(admitted[i], LAMBDA t : (now + 1) - t <= rps_window_secs)]
    /\ UNCHANGED <<notAdmit, ip_hits, ip_sems, ip_last_seen, req_counter, semValue,
                   semWaiters, gate, queue_depth, lastResp>>

NextAdmit ==
    \/ \E ip \in IPs : RateLimited(ip)
    \/ \E ip \in IPs, status \in {"401", "403"} : AuthRejected(ip, status)
    \/ \E ip \in IPs, r \in Reqs : GateEnter(ip, r)
    \/ \E r \in Reqs : Acquire(r)
    \/ \E r \in Reqs : QueueTimeout(r)
    \/ \E r \in Reqs : Finish(r)
    \/ TickAdmit

SpecAdmit == Init /\ [][NextAdmit]_vars

\* the request is cancelled (its client went away) while it waits for the semaphore:
\* CancelledError leaves wait_for, acquired is still False, finally decrements
WaitCancelled(r) ==
    /\ gate[r].pc = "waiting"
    /\ semWaiters' = [semWaiters EXCEPT ![gate[r].sem] = RemoveReq(@, r)]
    /\ queue_depth' = [queue_depth EXCEPT ![gate[r].ip] = @ - 1]
    /\ lastResp' = "cancelled"
    /\ gate' = [gate EXCEPT ![r] = FreeGate]
    /\ UNCHANGED <<notAdmit, now, ip_hits, ip_sems, ip_last_seen, req_counter, semValue, admitted>>

\* the concurrency gate alone: authenticated requests within their rate limit
NextGate ==
    \/ \E ip \in IPs, r \in Reqs : GateEnter(ip, r)
    \/ \E r \in Reqs : Acquire(r)
    \/ \E r \in Reqs : QueueTimeout(r)
    \/ \E r \in Reqs : WaitCancelled(r)
    \/ \E r \in Reqs : Finish(r)
    \/ TickAdmit

SpecGate == Init /\ [][NextGate]_vars

(***************************************************************************)
(* Route handlers past the gate: quota check, backend selection, dispatch  *)
(* and usage recording (chat_completions, sql_completions).                *)
(***************************************************************************)
QuotaOutcome(g, input_tokens) ==
    IF g.raised THEN "error"
    ELSE IF check_quota(g.usage, input_tokens)[1] THEN "allowed" ELSE "denied"

\* history of a check_quota call: its outcome, its reason, and the parity of the calls
Checked(prev, g, input_tokens) ==
    [result |-> QuotaOutcome(g, input_tokens),
     reason |-> IF g.raised THEN "ValueError" ELSE check_quota(g.usage, input_tokens)[2],
     n |-> 1 - prev.n]

WithinCaps(u) ==
    /\ u.daily_tokens <= MaxTokens
    /\ u.monthly_tokens <= MaxTokens
    /\ u.daily_requests <= MaxRequests

Done(route, quota, status, forwarded, recorded) ==
    [route |-> route, quota |-> quota, status |-> status, forwarded |-> forwarded,
     recorded |-> recorded]

\* sql_completions from the body read to the dispatch: check_quota, get_healthy_backend,
\* then stream_proxy and record_usage (stream) or the await of proxy_json
SqlDispatch(c, ip, input_tokens, stream, backends) ==
    /\ call[c].pc = "idle"
    /\ \A d \in Calls : call[d].pc = "idle" => c <= d
    /\ LET g     == get_or_create_usage(usage[ip], now)
           quota == QuotaOutcome(g, input_tokens)
           rec   == record_usage(g.usage, input_tokens + sql_output_tokens)
           backend == call_get_healthy_backend(1, backends)
       IN  /\ lastCheck' = [lastCheck EXCEPT ![ip] = Checked(@, g, input_tokens)]
           /\ lastSel' = IF g.raised \/ QuotaRejects(g.usage, input_tokens) THEN lastSel
                         ELSE Selected("text2sql", 0, backends, backend)
           /\ IF g.raised
              THEN /\ usage' = [usage EXCEPT ![ip] = g.usage]
                   /\ lastOp' = [lastOp EXCEPT ![ip] = "check"]
                   /\ lastCall' = Done("sql", quota, "500", FALSE, FALSE)
                   /\ call' = call
              ELSE IF QuotaRejects(g.usage, input_tokens)
              THEN /\ usage' = [usage EXCEPT ![ip] = g.usage]
                   /\ lastOp' = [lastOp EXCEPT ![ip] = "check"]
                   /\ lastCall' = Done("sql", quota, "429 quota", FALSE, FALSE)
                   /\ call' = call
              ELSE IF backend = "ValueError"
              THEN /\ usage' = [usage EXCEPT ![ip] = g.usage]
                   /\ lastOp' = [lastOp EXCEPT ![ip] = "check"]
                   /\ lastCall' = Done("sql", quota, "503", FALSE, FALSE)
                   /\ call' = call
              ELSE IF stream
              THEN /\ WithinCaps(rec)
                   /\ usage' = [usage EXCEPT ![ip] = rec]
                   /\ lastOp' = [lastOp EXCEPT ![ip] = "record"]
                   /\ lastCall' = Done("sql", quota, "200 stream", TRUE, TRUE)
                   /\ call' = call
              ELSE /\ usage' = [usage EXCEPT ![ip] = g.usage]
                   /\ lastOp' = [lastOp EXCEPT ![ip] = "check"]
                   /\ lastCall' = Done("sql", quota, "pending", TRUE, FALSE)
                   /\ call' = [call EXCEPT ![c] = [pc |-> "at_backend", ip |-> ip,
                                                   quota |-> quota]]
    /\ UNCHANGED <<notQuota, now, rr_chat_index>>

\* proxy_json returned a body: record_usage(ip, usage.total_tokens), 200
SqlReturn(c, total_tokens) ==
    /\ call[c].pc = "at_backend"
    /\ LET ip == call[c].ip
           g  == get_or_create_usage(usage[ip], now)
           rec == record_usage(g.usage, total_tokens)
       IN  /\ IF g.raised
              THEN /\ usage' = [usage EXCEPT ![ip] = g.usage]
                   /\ lastOp' = lastOp
                   /\ lastCall' = Done("sql", call[c].quota, "500", TRUE, FALSE)
              ELSE /\ WithinCaps(rec)
                   /\ usage' = [usage EXCEPT ![ip] = rec]
                   /\ lastOp' = [lastOp EXCEPT ![ip] = "record"]
                   /\ lastCall' = Done("sql", call[c].quota, "200", TRUE, TRUE)
    /\ call' = [call EXCEPT ![c] = IdleCall]
    /\ UNCHANGED <<notQuota, now, lastCheck, rr_chat_index, lastSel>>

\* proxy_json raised an HTTPException (backend error, timeout, circuit open)
SqlFail(c) ==
    /\ call[c].pc = "at_backend"
    /\ lastCall' = Done("sql", call[c].quota, "error", TRUE, FALSE)
    /\ call' = [call EXCEPT ![c] = IdleCall]
    /\ UNCHANGED <<notQuota, now, usage, lastCheck, lastOp, rr_chat_index, lastSel>>

\* chat_completions from the body read on: check_quota, next(_rr_chat_index), then
\* get_healthy_backend("chat", idx), which takes no index and raises TypeError; only
\* ValueError is caught there, so the request ends in 500
ChatDispatch(ip, input_tokens, backends) ==
    /\ LET g       == get_or_create_usage(usage[ip], now)
           quota   == QuotaOutcome(g, input_tokens)
           stopped == g.raised \/ QuotaRejects(g.usage, input_tokens)
           backend == call_get_healthy_backend(2, backends)
       IN  /\ lastCheck' = [lastCheck EXCEPT ![ip] = Checked(@, g, input_tokens)]
           /\ usage' = [usage EXCEPT ![ip] = g.usage]
           /\ lastOp' = [lastOp EXCEPT ![ip] = "check"]
           /\ rr_chat_index' = IF stopped THEN rr_chat_index ELSE next_rr(rr_chat_index)
           /\ lastSel' = IF stopped THEN lastSel
                         ELSE Selected("chat", rr_chat_index, backends, backend)
           /\ lastCall' = Done("chat", quota,
                               IF g.raised THEN "500"
                               ELSE IF QuotaRejects(g.usage, input_tokens) THEN "429 quota"
                               ELSE IF backend = "ValueError" THEN "503"
                               ELSE IF backend = "TypeError" THEN "500"
                               ELSE "pending",
                               FALSE, FALSE)
    /\ UNCHANGED <<notQuota, now, call>>

TickQuota ==
    /\ now < MaxNowQuota
    /\ now' = now + 1
    /\ UNCHANGED <<notQuota, quotaVars>>

\* the health service is the environment here: any healthy list may be read
NextQuota ==
    \/ \E c \in Calls, ip \in Tenants, n \in 0..MaxInputTokens, stream \in BOOLEAN,
          backends \in {<<>>, <<text2sql_backend>>} : SqlDispatch(c, ip, n, stream, backends)
    \/ \E c \in Calls, n \in 0..MaxUsageTokens : SqlReturn(c, n)
    \/ \E c \in Calls : SqlFail(c)
    \/ \E ip \in Tenants, n \in 0..MaxInputTokens : ChatDispatch(ip, n, chat_backends)
    \/ TickQuota

SpecQuota == Init /\ [][NextQuota]_vars

\* the ledger under the checks and records of the completions route alone
NextLedger ==
    \/ \E c \in Calls, ip \in Tenants, n \in 0..MaxInputTokens, stream \in BOOLEAN,
          backends \in {<<>>, <<text2sql_backend>>} : SqlDispatch(c, ip, n, stream, backends)
    \/ \E c \in Calls, n \in 0..MaxUsageTokens : SqlReturn(c, n)
    \/ \E c \in Calls : SqlFail(c)
    \/ TickQuota

SpecLedger == Init /\ [][NextLedger]_vars

(***************************************************************************)
(* Health probe rounds: HealthCheckService.update_healthy_backends         *)
(***************************************************************************)
\* self.healthy_backends[role] = backends; `changed` notes that this round has
\* altered the map
Publish(role, backends, pc) ==
    /\ healthy_backends' = [healthy_backends EXCEPT ![role] = backends]
    /\ probe' = [probe EXCEPT !.pc = pc,
                              !.changed = @ \/ backends # healthy_backends[role],
                              !.started = @ \/ pc = "sleeping"]

\* start() or health_check_loop calls update_healthy_backends, which runs up to the
\* await of the first check_backend
ProbeStart ==
    /\ probe.pc \in {"idle", "sleeping"}
    /\ probe' = [probe EXCEPT !.pc = "chat", !.i = 1, !.chat_healthy = <<>>,
                              !.changed = FALSE, !.read = FALSE]
    /\ UNCHANGED <<notHealth, now, healthy_backends>>

\* check_backend returns for a chat backend; after the last one the chat list is set
ProbeChat(is_healthy) ==
    /\ probe.pc = "chat"
    /\ LET chat_healthy == IF is_healthy THEN Append(probe.chat_healthy, chat_backends[probe.i])
                           ELSE probe.chat_healthy
       IN  IF probe.i < Len(chat_backends)
           THEN /\ probe' = [probe EXCEPT !.i = @ + 1, !.chat_healthy = chat_healthy]
                /\ healthy_backends' = healthy_backends
           ELSE Publish("chat", chat_healthy, "text2sql")
    /\ UNCHANGED <<notHealth, now>>

\* check_backend returns for the text2sql, embed or rerank backend
ProbeSingle(role, backend, pc, is_healthy) ==
    /\ probe.pc = role
    /\ Publish(role, IF is_healthy THEN <<backend>> ELSE <<>>, pc)
    /\ UNCHANGED <<notHealth, now>>

\* get_all_status: a reader is handed the map as it is now; `read` notes a read of a
\* map that the round in progress has already altered
ReadStatus ==
    /\ probe.started
    /\ probe' = [probe EXCEPT !.read = @ \/ (probe.pc # "sleeping" /\ probe.changed)]
    /\ UNCHANGED <<notHealth, now, healthy_backends>>

NextHealth ==
    \/ ProbeStart
    \/ \E is_healthy \in BOOLEAN : ProbeChat(is_healthy)
    \/ \E is_healthy \in BOOLEAN : ProbeSingle("text2sql", text2sql_backend, "embed", is_healthy)
    \/ \E is_healthy \in BOOLEAN : ProbeSingle("embed", embed_backend, "rerank", is_healthy)
    \/ \E is_healthy \in BOOLEAN : ProbeSingle("rerank", rerank_backend, "sleeping", is_healthy)
    \/ ReadStatus

SpecHealth == Init /\ [][NextHealth]_vars

\* the route handlers select among the backends the probe rounds publish; the
\* requests carry no input tokens, their quota being beside the point here
NextSelect ==
    \/ ProbeStart
    \/ \E is_healthy \in BOOLEAN : ProbeChat(is_healthy)
    \/ \E is_healthy \in BOOLEAN : ProbeSingle("text2sql", text2sql_backend, "embed", is_healthy)
    \/ \E is_healthy \in BOOLEAN : ProbeSingle("embed", embed_backend, "rerank", is_healthy)
    \/ \E is_healthy \in BOOLEAN : ProbeSingle("rerank", rerank_backend, "sleeping", is_healthy)
    \/ \E c \in Calls, ip \in Tenants, stream \in BOOLEAN :
          probe.started /\ SqlDispatch(c, ip, 0, stream, healthy_backends["text2sql"])
    \/ \E c \in Calls : SqlReturn(c, 0)
    \/ \E c \in Calls : SqlFail(c)
    \/ \E ip \in Tenants : probe.started /\ ChatDispatch(ip, 0, healthy_backends["chat"])

SpecSelect == Init /\ [][NextSelect]_vars

(***************************************************************************)
(* proxy_json under the circuit breaker                                    *)
(***************************************************************************)
\* proxy_json up to `await client.post`: get_breaker(url).__enter__(), which raises
\* CircuitBreakerOpenError (503) or lets the request go to the backend
JsonEnter(c, url) ==
    /\ jcall[c].pc = "idle"
    /\ \A d \in JCalls : jcall[d].pc = "idle" => c <= d
    /\ LET e == breaker_enter(breakers[url], now)
       IN  /\ breakers' = [breakers EXCEPT ![url] = e.breaker]
           /\ hist' = [hist EXCEPT ![url] = EnterLogged(@, breakers[url], now)]
           /\ IF e.raised
              THEN /\ jcall' = jcall
                   /\ lastJson' = [kind |-> "enter", status |-> "503", entered |-> "OPEN",
                                   n |-> 1 - lastJson.n, outcome |-> "circuit open"]
              ELSE /\ jcall' = [jcall EXCEPT ![c] = [pc |-> "posted", url |-> url,
                                                     entered |-> e.breaker.state]]
                   /\ lastJson' = [kind |-> "enter", status |-> "posted",
                                   entered |-> e.breaker.state, n |-> 1 - lastJson.n,
                                   outcome |-> "none"]
    /\ UNCHANGED <<notBreaker, now>>

\* client.post completes: raise_for_status, response.json(), __exit__, except clauses
JsonReturn(c, outcome) ==
    /\ jcall[c].pc = "posted"
    /\ LET url == jcall[c].url
       IN  /\ breakers' = [breakers EXCEPT ![url] = breaker_exit(@, Raises(outcome), now)]
           /\ hist' = [hist EXCEPT ![url] = Logged(@, IF Raises(outcome) THEN "F" ELSE "S")]
    /\ lastJson' = [kind |-> "return", status |-> JsonStatus(outcome),
                    entered |-> jcall[c].entered, n |-> 1 - lastJson.n, outcome |-> outcome]
    /\ jcall' = [jcall EXCEPT ![c] = IdleJson]
    /\ UNCHANGED <<notBreaker, now>>

TickBreaker ==
    /\ now < MaxNowBreaker
    /\ now' = now + 1
    /\ UNCHANGED <<notBreaker, breakerVars, jsonVars>>

NextBreaker ==
    \/ \E c \in JCalls, url \in Backends : JsonEnter(c, url)
    \/ \E c \in JCalls, outcome \in PostOutcomes : JsonReturn(c, outcome)
    \/ TickBreaker

SpecBreaker == Init /\ [][NextBreaker]_vars

(***************************************************************************)
(* CacheService as the non-streaming branch of chat_completions calls it   *)
(***************************************************************************)
\* cache_service.get(cache_service.get_cache_key(payload))
CacheGet(payload) ==
    /\ lastCache' = [op |-> "get", payload |-> payload,
                     result |-> cache_get(cache, get_cache_key(payload), now)]
    /\ cache' = cache
    /\ UNCHANGED <<notCache, now>>

\* cache_service.set(cache_service.get_cache_key(payload), response)
CacheSet(payload, response) ==
    /\ cache' = cache_set(cache, get_cache_key(payload), response, now)
    /\ lastCache' = [op |-> "set", payload |-> payload, result |-> "None"]
    /\ UNCHANGED <<notCache, now>>

TickCache ==
    /\ now < MaxNowCache
    /\ now' = now + 1
    /\ UNCHANGED <<notCache, cacheVars>>

NextCache ==
    \/ \E payload \in Payloads : CacheGet(payload)
    \/ \E payload \in Payloads, response \in Responses : CacheSet(payload, response)
    \/ TickCache

SpecCache == Init /\ [][NextCache]_vars

(***************************************************************************)
(* The estimate of a request: what the handlers hand to check_quota        *)
(***************************************************************************)
\* chat_completions: input_tokens = count_chat_tokens(payload.get("messages", [])),
\* then quota_manager.check_quota(ip, input_tokens)
ChatEstimate(messages, content_tokens, max_tokens) ==
    /\ LET input_tokens == count_chat_tokens(messages, content_tokens)
       IN  lastEstimate' = [route |-> "chat", input_tokens |-> input_tokens,
                            max_tokens |-> max_tokens, passed |-> input_tokens]
    /\ UNCHANGED <<notEstimate, now>>

\* sql_completions: input_tokens = len(prompt.split()) * 2, then
\* quota_manager.check_quota(ip, input_tokens)
SqlEstimate(words, max_tokens) ==
    /\ LET input_tokens == count_prompt_tokens(words)
       IN  lastEstimate' = [route |-> "sql", input_tokens |-> input_tokens,
                            max_tokens |-> max_tokens, passed |-> input_tokens]
    /\ UNCHANGED <<notEstimate, now>>

MaxTokensGiven == {NoMaxTokens} \cup (0..MaxMaxTokens)

NextEstimate ==
    \/ \E messages \in 0..MaxMessages, content_tokens \in 0..MaxContentTokens,
          max_tokens \in MaxTokensGiven :
          (messages = 0 => content_tokens = 0) /\ ChatEstimate(messages, content_tokens, max_tokens)
    \/ \E words \in 0..MaxWords, max_tokens \in MaxTokensGiven : SqlEstimate(words, max_tokens)

SpecEstimate == Init /\ [][NextEstimate]_vars

(***************************************************************************)
(* stream_proxy.generate                                                   *)
(***************************************************************************)
\* leaving the `with` block: __exit__ on the breaker of the stream's backend
StreamExit(exc) ==
    /\ breakers' = [breakers EXCEPT ![generate.url] = breaker_exit(@, exc, now)]
    /\ hist' = [hist EXCEPT ![generate.url] = Logged(@, IF exc THEN "F" ELSE "S")]

\* the generator starts: breaker __enter__, then the request is sent
StreamEnter(url) ==
    /\ generate.pc \in {"idle", "ended", "created"}
    /\ LET e == breaker_enter(breakers[url], now)
           started == [generate EXCEPT !.url = url, !.last_chunk_time = now, !.n = 0,
                                       !.cause = "none", !.status_code = 200,
                                       !.line = "none"]
       IN  /\ breakers' = [breakers EXCEPT ![url] = e.breaker]
           /\ hist' = [hist EXCEPT ![url] = EnterLogged(@, breakers[url], now)]
           /\ IF e.raised
              THEN /\ out' = <<sse_error("service_unavailable", "backend_unavailable"),
                               DoneFrame>>
                   /\ generate' = Ended(started, "circuit open")
              ELSE /\ out' = <<>>
                   /\ generate' = [started EXCEPT !.pc = "connecting"]
    /\ UNCHANGED <<notStream, now>>

\* the response headers arrive, or the request fails
StreamResponse(outcome, body) ==
    /\ generate.pc = "connecting"
    /\ IF outcome = "200"
       THEN /\ generate' = [generate EXCEPT !.pc = "reading"]
            /\ UNCHANGED <<out, breakerVars>>
       ELSE IF outcome = "error status" /\ body # "not an object"
       THEN /\ out' = <<sse_error(IF body = "error object" THEN "server" ELSE "api_error",
                                  IF body = "error object" THEN "OOM" ELSE "500"),
                        DoneFrame>>
            /\ generate' = Ended(generate, "error status")
            /\ StreamExit(FALSE)
       ELSE IF outcome = "timeout"
       THEN /\ out' = <<sse_error("timeout", "stream_timeout"), DoneFrame>>
            /\ generate' = Ended(generate, "timeout")
            /\ StreamExit(TRUE)
       ELSE /\ out' = <<sse_error("api_error", "stream_proxy_exception"), DoneFrame>>
            /\ generate' = Ended(generate, "exception")
            /\ StreamExit(TRUE)
    /\ UNCHANGED <<notStream, now>>

\* aiter_lines yields a line: one more line read, line.startswith("data: ") or not
LineRead(st, line) ==
    [st EXCEPT !.n = @ + 1, !.line = IF line.head = "data: " THEN "data" ELSE "other"]

\* one turn of `async for line in response.aiter_lines()`
StreamLine(line) ==
    /\ generate.pc = "reading"
    /\ generate.n < MaxLines
    /\ IF now - generate.last_chunk_time > stream_idle_timeout_secs
       THEN /\ generate' = Ended(LineRead(generate, line), "idle timeout")
            /\ out' = out
            /\ StreamExit(FALSE)
       ELSE IF line.head = "data: " /\ line.kind = "scalar"
       THEN /\ out' = out \o <<sse_error("api_error", "stream_proxy_exception"), DoneFrame>>
            /\ generate' = Ended(LineRead(generate, line), "exception")
            /\ StreamExit(TRUE)
       ELSE /\ generate' = [LineRead(generate, line) EXCEPT !.last_chunk_time = now]
            /\ UNCHANGED breakerVars
            /\ out' = IF line.head # "data: " THEN out
                      ELSE IF line.kind = "done" THEN Append(out, DoneFrame)
                      ELSE IF line.kind = "text"
                      THEN Append(out, Frame(line.head, "text", NoObj))
                      ELSE IF line.json.error # "absent"
                      THEN Append(out, Frame("data: ", "json", normalize_error_chunk(line.json)))
                      ELSE Append(out, Frame("data: ", "json", clean_stream_chunk(line.json)))
    /\ UNCHANGED <<notStream, now>>

\* the upstream body ends: the loop and the `with` block are left, nothing is yielded
StreamEof ==
    /\ generate.pc = "reading"
    /\ generate' = Ended(generate, "upstream end")
    /\ out' = out
    /\ StreamExit(FALSE)
    /\ UNCHANGED <<notStream, now>>

\* a handler that reports the failure and leaves out the closing frame
StreamFail_NoDone(timeout) ==
    /\ generate.pc = "reading"
    /\ timeout => now - generate.last_chunk_time >= stream_idle_timeout_secs
    /\ out' = Append(out, IF timeout THEN sse_error("timeout", "stream_timeout")
                          ELSE sse_error("api_error", "stream_proxy_exception"))
    /\ generate' = Ended(generate, IF timeout THEN "timeout" ELSE "exception")
    /\ StreamExit(TRUE)
    /\ UNCHANGED <<notStream, now>>

\* reading the body raises: httpx.TimeoutException after stream_idle_timeout_secs
\* without data, or any other exception
StreamFail(timeout) ==
    /\ generate.pc = "reading"
    /\ timeout => now - generate.last_chunk_time >= stream_idle_timeout_secs
    /\ out' = out \o <<IF timeout THEN sse_error("timeout", "stream_timeout")
                       ELSE sse_error("api_error", "stream_proxy_exception"), DoneFrame>>
    /\ generate' = Ended(generate, IF timeout THEN "timeout" ELSE "exception")
    /\ StreamExit(TRUE)
    /\ UNCHANGED <<notStream, now>>

\* a generator that survives the disconnect and goes on reading and yielding
StreamDisconnect_KeepsReading ==
    /\ generate.pc \in {"connecting", "reading"}
    /\ generate' = [generate EXCEPT !.pc = "reading", !.cause = "client disconnect"]
    /\ out' = out
    /\ UNCHANGED <<notStream, now, breakerVars>>

\* the client goes away: the server closes the generator at its current await
\* (the request, or the read of the next line); the exception it throws in is
\* no Exception subclass, so no handler of generate runs and nothing more is
\* yielded, while the breaker's __exit__ sees an exception
StreamDisconnect ==
    /\ generate.pc \in {"connecting", "reading"}
    /\ generate' = Ended(generate, "client disconnect")
    /\ out' = out
    /\ StreamExit(TRUE)
    /\ UNCHANGED <<notStream, now>>

TickStream ==
    /\ now < MaxNowStream
    /\ now' = now + 1
    /\ UNCHANGED <<notStream, breakerVars, streamVars>>

NextStream ==
    \/ \E url \in Backends : StreamEnter(url)
    \/ \E outcome \in ResponseOutcomes, body \in ErrorBodies : StreamResponse(outcome, body)
    \/ \E line \in UpstreamLines : StreamLine(line)
    \/ StreamEof
    \/ \E timeout \in BOOLEAN : StreamFail(timeout)
    \/ StreamDisconnect
    \/ TickStream

SpecStream == Init /\ [][NextStream]_vars

(***************************************************************************)
(* A streaming request from the gate to the end of its stream:             *)
(* sql_completions with stream = true inside `async with proxy_acq`, then  *)
(* the generator of the StreamingResponse it returned.                     *)
(***************************************************************************)
\* the body of sql_completions for a streaming request, from the quota check to
\* the return: `await stream_proxy(...)` only builds the StreamingResponse (its
\* generator has not started), record_usage runs, and the return leaves
\* proxy_acq, whose finally decrements queue_depth and releases the semaphore
SqlStreamServe(r, input_tokens, backends) ==
    /\ gate[r].pc = "running"
    /\ generate.pc \in {"idle", "ended"}
    /\ LET ip    == gate[r].ip
           g     == get_or_create_usage(usage[ip], now)
           quota == QuotaOutcome(g, input_tokens)
           rec   == record_usage(g.usage, input_tokens + sql_output_tokens)
           backend == call_get_healthy_backend(1, backends)
           checked == ~g.raised /\ ~QuotaRejects(g.usage, input_tokens)
           served  == checked /\ backend # "ValueError"
       IN  /\ served => WithinCaps(rec)
           /\ lastCheck' = [lastCheck EXCEPT ![ip] = Checked(@, g, input_tokens)]
           /\ lastSel' = IF checked THEN Selected("text2sql", 0, backends, backend) ELSE lastSel
           /\ usage' = [usage EXCEPT ![ip] = IF served THEN rec ELSE g.usage]
           /\ lastOp' = [lastOp EXCEPT ![ip] = IF served THEN "record" ELSE "check"]
           /\ lastCall' = Done("sql", quota,
                               IF g.raised THEN "500"
                               ELSE IF ~checked THEN "429 quota"
                               ELSE IF ~served THEN "503" ELSE "200 stream",
                               served, served)
           /\ generate' = IF served
                          THEN [IdleStream EXCEPT !.pc = "created", !.url = backend, !.ip = ip,
                                                  !.sem = gate[r].sem, !.status_code = 200]
                          ELSE generate
           /\ out' = IF served THEN <<>> ELSE out
    /\ semValue' = [semValue EXCEPT ![gate[r].sem] = @ + 1]
    /\ queue_depth' = [queue_depth EXCEPT ![gate[r].ip] = @ - 1]
    /\ lastResp' = "done"
    /\ gate' = [gate EXCEPT ![r] = FreeGate]
    /\ UNCHANGED <<now, ip_hits, ip_sems, ip_last_seen, req_counter, semWaiters, admitted,
                   call, rr_chat_index, healthVars, breakerVars, jsonVars, cacheVars,
                   lastEstimate>>

\* the lines a served stream reads
ServedLines == {line \in UpstreamLines : line.head = "data: " /\ line.kind \in {"done", "json"}
                                          /\ line.json \in {NoObj, DirtyChunk}}

\* the clock of a served stream stops here
MaxNowServe == 1

\* requests through the gate while a stream is served
MaxServed == 2

NextServe ==
    \/ \E ip \in Tenants, r \in Reqs : req_counter < MaxServed /\ GateEnter(ip, r)
    \/ \E r \in Reqs : Acquire(r)
    \/ \E r \in Reqs : QueueTimeout(r)
    \/ \E r \in Reqs : Finish(r)
    \/ \E r \in Reqs, backends \in {<<>>, <<text2sql_backend>>} : SqlStreamServe(r, 0, backends)
    \/ generate.pc = "created" /\ StreamEnter(generate.url)
    \/ \E outcome \in ResponseOutcomes : StreamResponse(outcome, "error object")
    \/ \E line \in ServedLines : StreamLine(line)
    \/ StreamEof
    \/ StreamFail(TRUE)
    \/ StreamDisconnect
    \/ now < MaxNowServe /\ TickAdmit

SpecServe == Init /\ [][NextServe]_vars

(***************************************************************************)
(* C1: for every tenant, the number of requests admitted by enforce_rps    *)
(* within any window of length rps_window_secs is at most                  *)
(* max(rps_burst, floor(max_rps_per_ip * rps_window_secs)).                *)
(***************************************************************************)
C1_RateWindowBound == \A i \in IPs : Len(admitted[i]) <= allowed

(***************************************************************************)
(* C2: for every tenant, the requests admitted by the gate and not yet     *)
(* finished never number more than max_inflight_per_ip.                    *)
(***************************************************************************)
InFlight(i) == {r \in Reqs : gate[r].pc = "running" /\ gate[r].ip = i}

C2_InflightBound == \A i \in IPs : Cardinality(InFlight(i)) <= max_inflight_per_ip

(***************************************************************************)
(* C3 (as claimed): after any sequence of check and record calls for a     *)
(* tenant, daily_tokens <= org_daily_token_limit or the tenant's last      *)
(* check returned denial.                                                  *)
(***************************************************************************)
C3_Original ==
    \A i \in Tenants :
        usage[i].daily_tokens <= org_daily_token_limit \/ lastCheck[i].result = "denied"

(***************************************************************************)
(* C3 (amended): after any sequence of check and record calls for a        *)
(* tenant, daily_tokens <= org_daily_token_limit, or the tenant's last     *)
(* check returned denial, or usage was recorded after that check.          *)
(***************************************************************************)
C3_OverLimitDenied ==
    \A i \in Tenants :
        \/ usage[i].daily_tokens <= org_daily_token_limit
        \/ lastCheck[i].result = "denied"
        \/ lastOp[i] = "record"

C3_Witness ==
    \E i \in Tenants :
        /\ usage[i].daily_tokens > org_daily_token_limit
        /\ lastOp[i] = "check"
        /\ lastCheck[i].result = "denied"
        /\ lastCheck[i].reason = "Daily token limit exceeded"

(***************************************************************************)
(* C9: a request whose quota check denies is rejected with 429 (with       *)
(* X-Quota-Reset), is not forwarded to a backend and records no usage.     *)
(***************************************************************************)
C9_DeniedIsRejected ==
    lastCall.quota = "denied" =>
        /\ lastCall.status = "429 quota"
        /\ ~lastCall.forwarded
        /\ ~lastCall.recorded

(***************************************************************************)
(* C10: a tenant denied for daily quota before daily_reset_at is allowed   *)
(* by the first check at or after daily_reset_at (its estimate fitting the *)
(* monthly quota), which zeroes the daily counters and leaves              *)
(* daily_reset_at strictly later than now.                                 *)
(***************************************************************************)
DeniedForDaily(i) ==
    /\ usage[i].exists
    /\ lastCheck[i].result = "denied"
    /\ lastCheck[i].reason \in {"Daily request limit exceeded", "Daily token limit exceeded"}

MonthlyRoom(i) == usage[i].monthly_tokens + MaxInputTokens <= org_monthly_token_limit

C10_AllowedAfterDailyReset ==
    [][\A i \in Tenants :
          (/\ DeniedForDaily(i)
           /\ MonthlyRoom(i)
           /\ now >= usage[i].daily_reset_at
           /\ lastCheck'[i].n # lastCheck[i].n)
          => (/\ lastCheck'[i].result = "allowed"
              /\ usage'[i].daily_reset_at > now
              /\ lastOp'[i] = "check" =>
                    usage'[i].daily_tokens = 0 /\ usage'[i].daily_requests = 0)]_vars

(***************************************************************************)
(* C4: a breaker moves OPEN -> HALF_OPEN only when now - last_failure_time *)
(* >= recovery_timeout, and HALF_OPEN -> CLOSED only when exactly 3        *)
(* successes and no failure were recorded since it became HALF_OPEN,       *)
(* whatever the interleaving of the guarded operations.                    *)
(***************************************************************************)
C4_BreakerTransitions ==
    [][\A u \in Backends :
          /\ (breakers[u].state = "OPEN" /\ breakers'[u].state = "HALF_OPEN")
                => now - breakers[u].last_failure_time >= circuit_recovery_timeout
          /\ (breakers[u].state = "HALF_OPEN" /\ breakers'[u].state = "CLOSED")
                => hist'[u] = <<"H", "S", "S", "S">>]_vars

\* the breaker closed on the success of a call that had entered while it was CLOSED
C4_Witness ==
    \E u \in Backends :
        /\ breakers[u].state = "CLOSED"
        /\ hist[u] = <<"H", "S", "S", "S">>
        /\ lastJson.kind = "return" /\ lastJson.status = "200" /\ lastJson.entered = "CLOSED"

(***************************************************************************)
(* C5: while a breaker is OPEN and recovery_timeout has not elapsed since  *)
(* last_failure_time, every guarded call fails at once with CircuitOpen,   *)
(* the backend is not contacted, and proxy_json answers 503.               *)
(***************************************************************************)
OpenAndWaiting(u) ==
    /\ breakers[u].state = "OPEN"
    /\ now - breakers[u].last_failure_time < circuit_recovery_timeout

C5_OpenRejects ==
    [][(\A u \in Backends : OpenAndWaiting(u)) =>
          /\ \A c \in JCalls : jcall[c].pc = "idle" => jcall'[c].pc = "idle"
          /\ (lastJson'.n # lastJson.n /\ lastJson'.kind = "enter")
                => lastJson'.status = "503"]_vars

\* failure_threshold failures in a row opened the breaker and the next call got 503
C5_Witness ==
    \E u \in Backends :
        /\ OpenAndWaiting(u)
        /\ hist[u] = <<"F", "F">>
        /\ lastJson.kind = "enter" /\ lastJson.status = "503"

(***************************************************************************)
(* C6: once recovery_timeout has elapsed since the last failure of an OPEN *)
(* breaker, the next guarded call makes it HALF_OPEN and goes to the       *)
(* backend; three successes in a row then restore CLOSED with              *)
(* failure_count and success_count reset to 0.                             *)
(***************************************************************************)
C6_Recovery ==
    [][\A u \in Backends :
          /\ (/\ breakers[u].state = "OPEN"
              /\ now - breakers[u].last_failure_time >= circuit_recovery_timeout
              /\ lastJson'.n # lastJson.n
              /\ lastJson'.kind = "enter")
                => /\ breakers'[u].state = "HALF_OPEN"
                   /\ breakers'[u].success_count = 0
                   /\ lastJson'.status = "posted"
                   /\ \E c \in JCalls : jcall[c].pc = "idle" /\ jcall'[c].pc = "posted"
          /\ hist'[u] = <<"H", "S", "S", "S">>
                => /\ breakers'[u].state = "CLOSED"
                   /\ breakers'[u].failure_count = 0
                   /\ breakers'[u].success_count = 0]_vars

C6_Witness ==
    \E u \in Backends :
        /\ hist[u] = <<"H", "S", "S", "S">>
        /\ breakers[u].state = "CLOSED"
        /\ breakers[u].failure_count = 0
        /\ breakers[u].last_failure_time > 0

(***************************************************************************)
(* C7: whatever the upstream lines and whatever ends the stream (upstream  *)
(* [DONE], upstream end without [DONE], idle timeout, error status,        *)
(* circuit open, read timeout, other exception), every emitted frame       *)
(* starts with "data: " and ends with a blank line, and the last frame     *)
(* emitted before the stream ends is "data: [DONE]".                       *)
(***************************************************************************)
WellFramed(f) == f.head = "data: " /\ f.tail = "\n\n"

C7_FramesEndWithDone ==
    /\ \A i \in DOMAIN out : WellFramed(out[i])
    /\ generate.pc = "ended" /\ generate.cause # "client disconnect"
           => (out # <<>> /\ out[Len(out)] = DoneFrame)

(***************************************************************************)
(* C8: no emitted frame contains a field of the stripped set at the top    *)
(* level, in a choice, in a choice's delta or in a choice's message,       *)
(* whatever the upstream data payload, payloads with an error key included.*)
(***************************************************************************)
HasStripped(j) ==
    \/ j.top \cap vllm_fields_to_remove # {}
    \/ \E i \in DOMAIN j.choices :
          \/ j.choices[i].own \cap vllm_fields_to_remove # {}
          \/ j.choices[i].delta \cap vllm_fields_to_remove # {}
          \/ j.choices[i].message \cap vllm_fields_to_remove # {}

C8_NoStrippedFields ==
    \A i \in DOMAIN out : out[i].kind = "json" => ~HasStripped(out[i].json)

(***************************************************************************)
(* C11: for every current UTC date, the last day of a month and the days   *)
(* of December included, the next daily reset is computed without error as *)
(* the next UTC midnight and the next monthly reset as 00:00 UTC on the    *)
(* 1st of the following month; both are strictly later than now.           *)
(***************************************************************************)
NextMidnight(t) == ((t \div TicksPerDay) + 1) * TicksPerDay

NextFirstOfMonth(t) == ((t \div TicksPerMonth) + 1) * TicksPerMonth

C11_ResetsComputed ==
    /\ get_next_day_reset(now) # ValueError
    /\ get_next_day_reset(now) = NextMidnight(now)
    /\ get_next_month_reset(now) = NextFirstOfMonth(now)
    /\ get_next_day_reset(now) > now
    /\ get_next_month_reset(now) > now

(***************************************************************************)
(* C12: the K-th admitted chat request is dispatched to                    *)
(* healthy_chat[K mod N_healthy_now], healthy_chat being the healthy chat  *)
(* list at selection time (K mod Len(chat_backends) is the index the       *)
(* request drew from the round-robin cycle).                               *)
(***************************************************************************)
C12_RoundRobinDispatch ==
    (lastSel.role = "chat" /\ lastSel.healthy # <<>>)
        => lastSel.result = lastSel.healthy[(lastSel.idx % Len(lastSel.healthy)) + 1]

(***************************************************************************)
(* C13: the chat round-robin counter advances exactly once for each chat   *)
(* request that passes admission, the quota check included, and never      *)
(* otherwise (not for a rejected request).                                 *)
(***************************************************************************)
ChatChecked == lastCall'.route = "chat" /\ \E i \in Tenants : lastCheck'[i].n # lastCheck[i].n

C13_CounterAdvancesOncePerAdmitted ==
    [][/\ (ChatChecked /\ lastCall'.quota = "allowed")
             => rr_chat_index' = next_rr(rr_chat_index)
       /\ rr_chat_index' # rr_chat_index
             => (ChatChecked /\ lastCall'.quota = "allowed")]_vars

(***************************************************************************)
(* C14: backend selection only returns a URL of the healthy list of the    *)
(* requested role as it is at selection time; when that list is empty the  *)
(* selection fails with NoHealthyBackend (ValueError), the request gets    *)
(* 503 and no backend is contacted.                                        *)
(***************************************************************************)
IsUrl(result) == result \notin {"none", "ValueError", "TypeError"}

C14_SelectsHealthyOr503 ==
    lastSel.role # "none" =>
        /\ IsUrl(lastSel.result)
              => \E k \in DOMAIN lastSel.healthy : lastSel.healthy[k] = lastSel.result
        /\ lastSel.healthy = <<>>
              => (lastSel.result = "ValueError" /\ lastSel.status = "503")

(***************************************************************************)
(* C20: a reader of the healthy-backends map that runs during a probe      *)
(* round sees the complete result of the previous round or the complete    *)
(* result of the new one, for each role and for the map as a whole: once a *)
(* reader has been handed a map that the round in progress has altered,    *)
(* that map is the round's result and the round does not alter it again.   *)
(***************************************************************************)
C20_ReadersSeeWholeRounds ==
    [][probe.read => healthy_backends' = healthy_backends]_vars

(***************************************************************************)
(* C15: every request that acquired its tenant's semaphore releases it     *)
(* exactly once on every exit path, a request that timed out waiting never *)
(* releases it, and the queue-depth gauge is decremented exactly once per  *)
(* gate entry: the permits of a semaphore and its holders always add up to *)
(* max_inflight_per_ip, the gauge counts the tenant's requests in the      *)
(* gate, and a tenant with no request in the gate has all its permits      *)
(* available and queue depth 0.                                            *)
(***************************************************************************)
Holders(s) == {r \in Reqs : gate[r].pc = "running" /\ gate[r].sem = s}

InGate(i) == {r \in Reqs : gate[r].pc # "free" /\ gate[r].ip = i}

C15_PermitsAndDepthRestored ==
    /\ \A s \in SemIds : semValue[s] + Cardinality(Holders(s)) = max_inflight_per_ip
    /\ \A i \in IPs : queue_depth[i] = Cardinality(InGate(i))
    /\ \A i \in IPs : InGate(i) = {} =>
          /\ queue_depth[i] = 0
          /\ ip_sems[i] # NoSem => semValue[ip_sems[i]] = max_inflight_per_ip

\* the gate is empty again after requests ran, one of them cancelled while queued
C15_Witness ==
    /\ \A r \in Reqs : gate[r].pc = "free"
    /\ req_counter >= 2
    /\ lastResp = "cancelled"
    /\ \E i \in IPs : ip_sems[i] # NoSem /\ semValue[ip_sems[i]] = max_inflight_per_ip

(***************************************************************************)
(* C16: a request that cannot acquire its tenant's semaphore within        *)
(* queue_timeout_secs is rejected with 429 (Retry-After: 5), holds no      *)
(* permit afterwards and never runs its body; no request waits at the gate *)
(* longer than queue_timeout_secs.                                         *)
(***************************************************************************)
TimedOut(r) ==
    /\ gate[r].pc = "waiting"
    /\ now - gate[r].start >= queue_timeout_secs
    /\ gate'[r].pc \notin {"waiting", "running"}
    /\ lastResp' # "cancelled"

C16_QueueTimeoutRejects ==
    [][/\ \A r \in Reqs : gate'[r].pc = "waiting" => now' - gate'[r].start <= queue_timeout_secs
       /\ \A r \in Reqs : TimedOut(r) =>
             /\ lastResp' = "429 queue"
             /\ gate'[r] = FreeGate
             /\ semValue' = semValue
             /\ r \notin Holders(gate[r].sem)']_vars

\* a queued request was turned away while another still holds the only permit
C16_Witness ==
    /\ lastResp = "429 queue"
    /\ \E r \in Reqs : gate[r].pc = "running" /\ semValue[gate[r].sem] = 0
    /\ \A r \in Reqs : gate[r].pc # "waiting"

(***************************************************************************)
(* C18: every failure on the streaming path (backend status >= 400 before  *)
(* any SSE content, circuit open at entry, read timeout, any other         *)
(* exception) is delivered as exactly one SSE error frame followed by      *)
(* exactly one 'data: [DONE]' frame, after which the stream ends, and the  *)
(* response keeps its HTTP status 200: the step in which the generator     *)
(* fails yields these two frames and nothing else, and ends the generator. *)
(***************************************************************************)
FailureCauses == {"error status", "circuit open", "timeout", "exception"}

IsErrorFrame(f) ==
    /\ WellFramed(f)
    /\ f.kind = "json"
    /\ f.json.error = "obj"
    /\ f.json.top = {}
    /\ f.json.choices = NoChoices

Fails == generate' # generate /\ generate'.pc = "ended" /\ generate'.cause \in FailureCauses

C18_FailureIsErrorThenDone ==
    [][Fails =>
          /\ generate'.status_code = 200
          /\ \E f \in {out'[i] : i \in DOMAIN out'} :
                /\ IsErrorFrame(f)
                /\ out' = (IF generate'.cause = "circuit open" THEN <<>> ELSE out)
                             \o <<f, DoneFrame>>]_vars

\* a read timeout after a chunk had been forwarded
C18_Witness ==
    /\ generate.pc = "ended"
    /\ generate.cause = "timeout"
    /\ Len(out) = 3
    /\ out[1].kind = "json" /\ out[1].json.error = "absent"
    /\ IsErrorFrame(out[2])
    /\ out[3] = DoneFrame

(***************************************************************************)
(* C17: every request passes the stages in the order rate limit ->         *)
(* authentication -> concurrency gate -> quota check -> backend selection  *)
(* -> dispatch, and a request rejected at one stage causes none of the     *)
(* effects of a later stage.  For the stages of the handler body: a        *)
(* backend is selected, the round-robin counter advanced and a backend     *)
(* call started only in a handler run whose quota check allowed the        *)
(* request, and a run whose quota check denied it does none of these.      *)
(***************************************************************************)
QuotaChecked == \E i \in Tenants : lastCheck'[i].n # lastCheck[i].n

LaterStageEffect ==
    \/ rr_chat_index' # rr_chat_index
    \/ lastSel' # lastSel
    \/ \E c \in Calls : call[c].pc = "idle" /\ call'[c].pc = "at_backend"
    \/ QuotaChecked /\ lastCall'.forwarded

C17_RejectedStopsLaterStages ==
    [][/\ LaterStageEffect => (QuotaChecked /\ lastCall'.quota = "allowed")
       /\ (QuotaChecked /\ lastCall'.quota = "denied") => ~LaterStageEffect]_vars

(***************************************************************************)
(* C19: if the client disconnects during a stream, the upstream read is    *)
(* cancelled and no further chunk is emitted, the tenant's concurrency     *)
(* semaphore is released and its queue depth decremented (the request of   *)
(* the stream holds no permit and is not counted in the gauge), and the    *)
(* usage recorded for the request stays recorded.                          *)
(***************************************************************************)
Disconnects == generate.cause # "client disconnect" /\ generate'.cause = "client disconnect"

StreamHoldsNothing ==
    /\ semValue[generate.sem] + Cardinality(Holders(generate.sem)) = max_inflight_per_ip
    /\ queue_depth[generate.ip] = Cardinality(InGate(generate.ip))

C19_DisconnectCancelsAndReleases ==
    [][/\ Disconnects =>
             /\ generate'.pc = "ended"
             /\ out' = out
             /\ StreamHoldsNothing'
             /\ usage' = usage
             /\ lastCall'.recorded /\ lastOp'[generate.ip] = "record"
       /\ (generate.cause = "client disconnect" /\ generate'.cause = "client disconnect")
             => (out' = out /\ generate'.pc = "ended")]_vars

\* the client left after a chunk was forwarded; the gate is empty and every permit
\* of the tenant's semaphore is available
C19_Witness ==
    /\ generate.cause = "client disconnect"
    /\ generate.pc = "ended"
    /\ Len(out) >= 1
    /\ InGate(generate.ip) = {}
    /\ queue_depth[generate.ip] = 0
    /\ semValue[generate.sem] = max_inflight_per_ip
    /\ usage[generate.ip].daily_requests >= 1

(***************************************************************************)
(* C21: a response is stored in the response cache only for a request      *)
(* whose temperature is <= 0.3; for a request with temperature > 0.3 (or   *)
(* with no temperature given) the cache is left unchanged and a later      *)
(* identical request is not served from cache: no entry of the cache has a *)
(* key of a temperature above the limit, and a lookup for such a request   *)
(* finds nothing.                                                          *)
(***************************************************************************)
C21_CachedOnlyLowTemperature ==
    /\ \A i \in DOMAIN cache : cache[i].key.temperature <= cache_temperature_limit
    /\ (lastCache.op = "get" /\ ~should_cache(lastCache.payload)) => lastCache.result = "None"

(***************************************************************************)
(* C22: the JSON proxy maps backend outcomes to client errors as follows:  *)
(* network timeout -> 504 (GatewayTimeout), connection error -> 502        *)
(* (BadGateway), upstream 4xx/5xx -> the same upstream status (429 stays   *)
(* 429), circuit open -> 503; a 2xx returns the parsed JSON (200).         *)
(***************************************************************************)
C22_JsonErrorMapping ==
    /\ lastJson.outcome = "timeout" => lastJson.status = "504"
    /\ lastJson.outcome = "connect error" => lastJson.status = "502"
    /\ lastJson.outcome \in {"400", "429", "500"} => lastJson.status = lastJson.outcome
    /\ lastJson.outcome = "circuit open" => lastJson.status = "503"
    /\ lastJson.outcome = "200" => lastJson.status = "200"

(***************************************************************************)
(* C23: within one tenant, requests are admitted by the concurrency gate   *)
(* in the order they started waiting (FIFO): a request that began waiting  *)
(* later is never admitted before an earlier request of the tenant that is *)
(* still waiting.                                                          *)
(***************************************************************************)
Admitted(r) == gate[r].pc = "waiting" /\ gate'[r].pc = "running"

WaitsSince(q, r) ==
    /\ gate[q].pc = "waiting"
    /\ gate[q].ip = gate[r].ip
    /\ gate[q].ticket < gate[r].ticket

C23_GateIsFifo ==
    [][\A r \in Reqs : Admitted(r) => ~\E q \in Reqs : WaitsSince(q, r)]_vars

\* two requests of the only tenant seen so far waited for the permit; since the
\* holder finished no request has entered, the earlier of the two runs and the
\* later still waits
C23_Witness ==
    \E r, q \in Reqs :
        /\ gate[r].pc = "running"
        /\ gate[q].pc = "waiting"
        /\ gate[q].ip = gate[r].ip
        /\ gate[r].ticket < gate[q].ticket
        /\ lastResp = "done"
        /\ now <= ip_idle_secs
        /\ \A i \in IPs \ {gate[r].ip} : ip_last_seen[i] = NoTime

(***************************************************************************)
(* C24: in CLOSED every call passes; a success resets failure_count to 0   *)
(* and a failure increments it, so the breaker opens exactly when          *)
(* failure_threshold consecutive failures (no success in between) have     *)
(* been recorded, and it records last_failure_time at that moment.         *)
(***************************************************************************)
RECURSIVE TrailingFailures(_)
TrailingFailures(h) ==
    IF h = <<>> \/ h[Len(h)] # "F" THEN 0
    ELSE 1 + TrailingFailures(SubSeq(h, 1, Len(h) - 1))

JsonEntered == lastJson'.n # lastJson.n /\ lastJson'.kind = "enter"

JsonReturned == lastJson'.n # lastJson.n /\ lastJson'.kind = "return"

JsonFailed == JsonReturned /\ Raises(lastJson'.outcome)

C24_ClosedCountsFailures ==
    [][\A u \in Backends :
          breakers[u].state = "CLOSED" =>
             /\ JsonEntered => (lastJson'.status = "posted" /\ breakers'[u] = breakers[u])
             /\ (JsonReturned /\ ~JsonFailed) =>
                    breakers'[u] = [breakers[u] EXCEPT !.failure_count = 0]
             /\ JsonFailed =>
                    /\ breakers'[u].failure_count = breakers[u].failure_count + 1
                    /\ breakers'[u].last_failure_time = now
                    /\ breakers'[u].failure_count = TrailingFailures(hist'[u])
             /\ breakers'[u].state = "OPEN" <=>
                    (JsonFailed /\ TrailingFailures(hist'[u]) >= circuit_failure_threshold)]_vars

\* a failure, a success, then failure_threshold failures in a row open the breaker
C24_Witness ==
    \E u \in Backends :
        /\ breakers[u].state = "OPEN"
        /\ hist[u] = <<"F", "S", "F", "F">>
        /\ breakers[u].failure_count = circuit_failure_threshold
        /\ breakers[u].last_failure_time = now
        /\ now > 0

(***************************************************************************)
(* C25: in HALF_OPEN any recorded failure moves the breaker back to OPEN   *)
(* with success_count reset to 0, so successes counted before the failure  *)
(* never contribute to a later HALF_OPEN -> CLOSED transition: outside     *)
(* HALF_OPEN success_count is 0, in HALF_OPEN it counts no more than the   *)
(* successes recorded since the last failure or the last reset, and the    *)
(* breaker closes only on half_open_successes such successes.              *)
(***************************************************************************)
RECURSIVE TrailingSuccesses(_)
TrailingSuccesses(h) ==
    IF h = <<>> \/ h[Len(h)] # "S" THEN 0
    ELSE 1 + TrailingSuccesses(SubSeq(h, 1, Len(h) - 1))

C25_HalfOpenFailureReopens ==
    [][\A u \in Backends :
          /\ (breakers[u].state = "HALF_OPEN" /\ JsonFailed) =>
                 /\ breakers'[u].state = "OPEN"
                 /\ breakers'[u].success_count = 0
                 /\ breakers'[u].last_failure_time = now
          /\ breakers'[u].state # "HALF_OPEN" => breakers'[u].success_count = 0
          /\ breakers'[u].state = "HALF_OPEN" =>
                 breakers'[u].success_count <= TrailingSuccesses(hist'[u])
          /\ (breakers[u].state = "HALF_OPEN" /\ breakers'[u].state = "CLOSED") =>
                 TrailingSuccesses(hist'[u]) >= half_open_successes]_vars

\* a success and then a failure in HALF_OPEN: the breaker is OPEN again, nothing counted
C25_Witness ==
    \E u \in Backends :
        /\ breakers[u].state = "OPEN"
        /\ hist[u] = <<"F", "H", "S", "F">>
        /\ breakers[u].success_count = 0
        /\ breakers[u].last_failure_time = now

(***************************************************************************)
(* C26: a guarded operation that entered while the breaker was HALF_OPEN   *)
(* has its outcome applied with HALF_OPEN semantics (the state snapshot    *)
(* taken at entry) even if the breaker changed state before the operation  *)
(* completed: its outcome is never dropped or applied with the semantics   *)
(* of the later state.                                                     *)
(***************************************************************************)
AsHalfOpen(b) == [b EXCEPT !.state = "HALF_OPEN"]

C26_OutcomeUsesEntrySnapshot ==
    [][\A u \in Backends :
          (JsonReturned /\ lastJson'.entered = "HALF_OPEN") =>
              breakers'[u] = breaker_exit(AsHalfOpen(breakers[u]),
                                          Raises(lastJson'.outcome), now)]_vars

(***************************************************************************)
(* C27: every backend failure on the streaming path (backend status >= 400 *)
(* before any SSE content, read timeout, connection or other exception) is *)
(* recorded as a failure on that backend's breaker, even though the client *)
(* only sees a 200 stream with an SSE error frame; a stream that completes *)
(* normally is recorded as a success.                                      *)
(***************************************************************************)
StreamEnds == generate.pc \in {"connecting", "reading"} /\ generate'.pc = "ended"

C27_StreamOutcomeFeedsBreaker ==
    [][StreamEnds =>
          /\ generate'.cause \in {"error status", "timeout", "exception"} =>
                 breakers'[generate.url] = record_failure(breakers[generate.url], now)
          /\ generate'.cause = "upstream end" =>
                 breakers'[generate.url] = record_success(breakers[generate.url])]_vars

(***************************************************************************)
(* C28: when the upstream sends a data line whose payload is [DONE], the   *)
(* proxy emits 'data: [DONE]' and ends the stream: no later upstream line  *)
(* is processed or emitted, so a stream contains at most one [DONE] frame  *)
(* and nothing after it.                                                   *)
(***************************************************************************)
C28_DoneEndsStream ==
    \A i \in DOMAIN out : out[i] = DoneFrame => i = Len(out)

(***************************************************************************)
(* C29: the SSE proxy is an order-preserving filter of the upstream: each  *)
(* upstream line starting with 'data: ' (read within the idle timeout)     *)
(* yields exactly one downstream frame, appended after the frames of the   *)
(* earlier lines, and every other line (event:, id:, retry:, comments,     *)
(* blank lines) yields no output.                                          *)
(***************************************************************************)
ReadsLine == generate'.n = generate.n + 1 /\ generate'.cause # "idle timeout"

C29_OrderPreservingFilter ==
    [][ReadsLine =>
          /\ generate'.line = "data" =>
                 (Len(out') = Len(out) + 1 /\ SubSeq(out', 1, Len(out)) = out)
          /\ generate'.line = "other" => out' = out]_vars

(***************************************************************************)
(* C30: when the gap between two consecutive upstream reads exceeds        *)
(* stream_idle_timeout_secs, the stream is terminated: no further upstream *)
(* line is forwarded, 'data: [DONE]' is emitted, and the stream ends.      *)
(***************************************************************************)
C30_IdleTimeoutEndsWithDone ==
    generate.cause = "idle timeout" =>
        /\ generate.pc = "ended"
        /\ out # <<>>
        /\ out[Len(out)] = DoneFrame

(***************************************************************************)
(* C31: for a streaming request, usage of prompt tokens + 500 (chat) or    *)
(* + 200 (text2sql) and one request is recorded exactly once, and only     *)
(* when the stream succeeds: when the stream of a request fails (circuit   *)
(* open, backend error, timeout, other exception), no usage has been       *)
(* recorded for that request.                                              *)
(***************************************************************************)
C31_FailedStreamRecordsNothing ==
    [][Fails => (~lastCall'.recorded /\ lastOp'[generate'.ip] # "record")]_vars

(***************************************************************************)
(* C32: the token estimate passed to the quota check of a request equals   *)
(* the estimated prompt tokens plus a completion budget of                 *)
(* min(max_tokens, 4096) when max_tokens is given and 512 otherwise.       *)
(***************************************************************************)
C32_EstimateAddsCompletionBudget ==
    lastEstimate.route # "none" =>
        lastEstimate.passed =
            lastEstimate.input_tokens + estimate_completion_tokens(lastEstimate.max_tokens)

(***************************************************************************)
(* C33: GC runs exactly on every _gc_every-th gate admission (counted over *)
(* all tenants); it removes the gate, the last-seen entry and the rate     *)
(* window of exactly those tenants whose last-seen is older than           *)
(* ip_idle_secs, and leaves every other tenant's entries and all quota     *)
(* records unchanged (the entering tenant's entries are those its own      *)
(* request has just set).                                                  *)
(***************************************************************************)
Enters(i) ==
    /\ req_counter' = req_counter + 1
    /\ \E r \in Reqs : gate[r].pc = "free" /\ gate'[r].pc = "waiting" /\ gate'[r].ip = i

GcRuns == req_counter' # req_counter /\ req_counter' % gc_every = 0

IdleTenant(i) == ip_last_seen[i] # NoTime /\ now - ip_last_seen[i] > ip_idle_secs

C33_GcPrunesExactlyIdleTenants ==
    [][/\ \A i \in IPs :
             IF Enters(i)
             THEN /\ ip_sems'[i] # NoSem /\ (ip_sems[i] # NoSem => ip_sems'[i] = ip_sems[i])
                  /\ ip_last_seen'[i] = now
                  /\ ip_hits'[i] = enforce_rps(ip_hits[i], now)
             ELSE IF GcRuns /\ IdleTenant(i)
             THEN /\ ip_sems'[i] = NoSem
                  /\ ip_last_seen'[i] = NoTime
                  /\ ip_hits'[i] = <<>>
             ELSE /\ ip_sems'[i] = ip_sems[i]
                  /\ ip_last_seen'[i] = ip_last_seen[i]
                  /\ ip_hits'[i] = ip_hits[i]
       /\ GcRuns => usage' = usage]_vars

\* the gate entry that ran GC has pruned a tenant whose request is still running and
\* kept the entries of the tenant that entered
C33_Witness ==
    \E i \in IPs, r \in Reqs :
        /\ gate[r].pc = "running" /\ gate[r].ip = i
        /\ ip_sems[i] = NoSem /\ ip_last_seen[i] = NoTime /\ ip_hits[i] = <<>>
        /\ lastResp = "queued"
        /\ req_counter % gc_every = 0
        /\ \E j \in IPs \ {i} : ip_sems[j] # NoSem /\ ip_last_seen[j] = now /\ ip_hits[j] # <<>>

(***************************************************************************)
(* C34: gc_idle never removes the semaphore of a tenant that currently has *)
(* a permit held or a request waiting on it, so all concurrently active    *)
(* requests of one tenant always share one semaphore object: the semaphore *)
(* of every request in the gate is the one registered for its tenant.      *)
(***************************************************************************)
C34_ActiveRequestsShareSemaphore ==
    /\ \A r \in Reqs : gate[r].pc # "free" => ip_sems[gate[r].ip] = gate[r].sem
    /\ \A r, q \in Reqs :
          (gate[r].pc # "free" /\ gate[q].pc # "free" /\ gate[r].ip = gate[q].ip)
              => gate[r].sem = gate[q].sem

(***************************************************************************)
(* C35: a streaming request keeps holding its tenant's concurrency permit  *)
(* until its SSE stream has terminated; the permit is not released when    *)
(* the handler returns the not-yet-consumed streaming response: while the  *)
(* stream has not ended, a request of its tenant holds a permit of the     *)
(* stream's semaphore and counts in the queue-depth gauge.                 *)
(***************************************************************************)
StreamPending == generate.pc \in {"created", "connecting", "reading"}

C35_StreamHoldsPermit ==
    StreamPending =>
        /\ \E r \in Reqs : /\ gate[r].pc = "running"
                           /\ gate[r].ip = generate.ip
                           /\ gate[r].sem = generate.sem
        /\ semValue[generate.sem] < max_inflight_per_ip
        /\ queue_depth[generate.ip] >= 1

(***************************************************************************)
(* C36: under any interleaving of concurrent requests of one tenant, the   *)
(* number of requests recorded in daily_requests within one day never      *)
(* exceeds org_daily_request_limit, although the quota check and the usage *)
(* recording of a request are separated by the backend call.               *)
(***************************************************************************)
C36_DailyRequestsWithinLimit ==
    \A i \in Tenants : usage[i].daily_requests <= org_daily_request_limit

(***************************************************************************)
(* C37: a client disconnect during an SSE stream (the generator being      *)
(* closed while inside the breaker guard) leaves the backend's breaker     *)
(* state, failure_count and last_failure_time unchanged: it is not counted *)
(* as a backend failure.                                                   *)
(***************************************************************************)
C37_DisconnectLeavesBreaker ==
    [][Disconnects =>
          /\ breakers'[generate.url].state = breakers[generate.url].state
          /\ breakers'[generate.url].failure_count = breakers[generate.url].failure_count
          /\ breakers'[generate.url].last_failure_time
                 = breakers[generate.url].last_failure_time]_vars

(***************************************************************************)
(* C38: while a breaker is OPEN, the completion of operations that entered *)
(* earlier (while it was CLOSED or HALF_OPEN) changes neither              *)
(* last_failure_time nor failure_count, so the earliest time at which the  *)
(* breaker may become HALF_OPEN is not postponed by late outcomes.         *)
(***************************************************************************)
C38_LateOutcomesLeaveOpenBreaker ==
    [][\A u \in Backends :
          (breakers[u].state = "OPEN" /\ JsonReturned) =>
              /\ breakers'[u].last_failure_time = breakers[u].last_failure_time
              /\ breakers'[u].failure_count = breakers[u].failure_count]_vars

(***************************************************************************)
(* C39: on the JSON path only backend faults (5xx status, timeout,         *)
(* connection error) are recorded as breaker failures; an upstream 4xx     *)
(* response caused by the client's own request is not counted and can      *)
(* never open the breaker for other tenants.                               *)
(***************************************************************************)
BackendFault(outcome) == outcome \in {"500", "timeout", "connect error"}

ClientFault(outcome) == outcome \in {"400", "429"}

C39_ClientErrorsAreNoFailures ==
    [][\A u \in Backends :
          JsonReturned =>
              /\ BackendFault(lastJson'.outcome) =>
                     breakers'[u] = record_failure(breakers[u], now)
              /\ ClientFault(lastJson'.outcome) =>
                     /\ breakers'[u].failure_count <= breakers[u].failure_count
                     /\ breakers'[u].last_failure_time = breakers[u].last_failure_time
                     /\ breakers'[u].state = "OPEN" => breakers[u].state = "OPEN"]_vars

(***************************************************************************)
(* C40: in every reachable state of a breaker, under any interleaving of   *)
(* guarded operations, success_count is 0 unless the state is HALF_OPEN,   *)
(* where 0 <= success_count <= 2, and failure_count < failure_threshold    *)
(* whenever the state is CLOSED.                                           *)
(***************************************************************************)
C40_BreakerCountersInRange ==
    \A u \in Backends :
        /\ breakers[u].state # "HALF_OPEN" => breakers[u].success_count = 0
        /\ breakers[u].state = "HALF_OPEN" =>
              breakers[u].success_count \in 0..(half_open_successes - 1)
        /\ breakers[u].state = "CLOSED" =>
              breakers[u].failure_count \in 0..(circuit_failure_threshold - 1)

\* a breaker on probation one success short of closing, with another call in flight
C40_Witness ==
    \E u \in Backends :
        /\ breakers[u].state = "HALF_OPEN"
        /\ breakers[u].success_count = half_open_successes - 1
        /\ breakers[u].failure_count >= circuit_failure_threshold
        /\ \E c \in JCalls : jcall[c].pc = "posted" /\ jcall[c].url = u

====
